---------------------------- MODULE Spec2Model ----------------------------
(***************************************************************************)
(* tdmcli: a directory tree is packed into one "template" archive by       *)
(* create_template and unpacked by apply_template (src/tdmcli.py).         *)
(*                                                                         *)
(* Bytes are the integers 0..255, byte strings are sequences of bytes, and *)
(* text is ASCII, so that str.encode()/bytes.decode() map a character to   *)
(* the byte of the same number.  Paths use "/" as the separator.           *)
(***************************************************************************)
EXTENDS Integers, Sequences, FiniteSets, TLC

(***************************************************************************)
(* Bounds of the model.                                                    *)
(***************************************************************************)
\* number of operations (create, get, import, delete) run one after another
MaxOps == 2
\* longest plaintext handed to the cipher in the specification SpecCipher
MaxData == 3
\* os.cpu_count() of the host
CpuCount == 1

(***************************************************************************)
(* Byte strings of the program text.                                       *)
(***************************************************************************)
\* KEY = "tdmcliKeyy"
KEY == <<116, 100, 109, 99, 108, 105, 75, 101, 121, 121>>
\* MAX_WORKERS = os.cpu_count() * 4
MAX_WORKERS == CpuCount * 4
\* b"\n"
NL == 10
\* "FILE: "
FILE_MARK == <<70, 73, 76, 69, 58, 32>>
\* "SIZE: "
SIZE_MARK == <<83, 73, 90, 69, 58, 32>>
\* b"\nEND_OF_FILE\n"
END_MARK == <<10, 69, 78, 68, 95, 79, 70, 95, 70, 73, 76, 69, 10>>
\* root_dir='.'
ROOT_DIR == <<46>>
\* os.sep
SEP == 47
\* the characters bytes.strip() removes: \t \n \v \f \r and space
WHITESPACE == {9, 10, 11, 12, 13, 32}
\* the template file is absent from the template store: no byte string
NoFile == <<0 - 1>>

(***************************************************************************)
(* Pure functions.                                                         *)
(***************************************************************************)
RECURSIVE XorBits(_, _, _)
XorBits(a, b, n) ==
    IF n = 0 THEN 0
    ELSE (((a % 2) + (b % 2)) % 2) + (2 * XorBits(a \div 2, b \div 2, n - 1))

\* b ^ k on two bytes
ByteXor(a, b) == XorBits(a, b, 8)

\* xor_crypt with + (mod 256) in the place of ^
xor_crypt_add(data, key) ==
    LET key_len == Len(key)
    IN  [n \in 1..Len(data) |-> (data[n] + key[((n - 1) % key_len) + 1]) % 256]

\* xor_crypt(data, key): enumerate(data) counts i from 0, sequences from 1
xor_crypt(data, key) ==
    LET key_len == Len(key)
    IN  [n \in 1..Len(data) |-> ByteXor(data[n], key[((n - 1) % key_len) + 1])]

StartsWith(line, prefix) ==
    /\ Len(line) >= Len(prefix)
    /\ SubSeq(line, 1, Len(prefix)) = prefix

\* line[6:]
From6(line) == SubSeq(line, 7, Len(line))

RECURSIVE SplitLines(_, _, _)
SplitLines(b, n, cur) ==
    IF n > Len(b) THEN (IF cur = <<>> THEN <<>> ELSE <<cur>>)
    ELSE IF b[n] = NL THEN <<Append(cur, NL)>> \o SplitLines(b, n + 1, <<>>)
    ELSE SplitLines(b, n + 1, Append(cur, b[n]))

\* template_file.readlines() of a file opened 'rb': lines end after each \n
Readlines(b) == SplitLines(b, 1, <<>>)

RECURSIVE Join(_)
\* b''.join(lines)
Join(ls) == IF ls = <<>> THEN <<>> ELSE Head(ls) \o Join(Tail(ls))

RECURSIVE LStrip(_)
LStrip(b) == IF b /= <<>> /\ Head(b) \in WHITESPACE THEN LStrip(Tail(b)) ELSE b

RECURSIVE RStrip(_)
RStrip(b) ==
    IF b /= <<>> /\ b[Len(b)] \in WHITESPACE THEN RStrip(SubSeq(b, 1, Len(b) - 1)) ELSE b

\* bytes.strip()
Strip(b) == RStrip(LStrip(b))

RECURSIVE DecimalStr(_)
\* str(n) for n >= 0, as it stands in an f-string
DecimalStr(n) ==
    IF n < 10 THEN <<48 + n>> ELSE Append(DecimalStr(n \div 10), 48 + (n % 10))

IsDigit(c) == c \in 48..57

RECURSIVE DigitsValue(_, _)
DigitsValue(b, acc) ==
    IF b = <<>> THEN acc
    ELSE IF Head(b) = 95 THEN DigitsValue(Tail(b), acc)
    ELSE DigitsValue(Tail(b), 10 * acc + (Head(b) - 48))

\* int(b): optional sign, then digits, single underscores allowed between
\* digits; [ok |-> FALSE] is ValueError
ParseInt(raw) ==
    LET b      == Strip(raw)
        signed == b /= <<>> /\ Head(b) \in {43, 45}
        d      == IF signed THEN Tail(b) ELSE b
        wellformed ==
            /\ d /= <<>>
            /\ IsDigit(d[1]) /\ IsDigit(d[Len(d)])
            /\ \A n \in 1..Len(d) : IsDigit(d[n]) \/ d[n] = 95
            /\ \A n \in 1..(Len(d) - 1) : ~(d[n] = 95 /\ d[n + 1] = 95)
    IN  IF ~wellformed THEN [ok |-> FALSE, val |-> 0]
        ELSE [ok |-> TRUE,
              val |-> IF signed /\ Head(b) = 45 THEN 0 - DigitsValue(d, 0)
                      ELSE DigitsValue(d, 0)]

\* b[:size], a negative size counting from the end
SliceTo(b, size) ==
    IF size >= 0 THEN SubSeq(b, 1, IF size < Len(b) THEN size ELSE Len(b))
    ELSE SubSeq(b, 1, Len(b) + size)

\* the position of the last separator of p, 0 when there is none
LastSep(p) ==
    LET at == {n \in 1..Len(p) : p[n] = SEP}
    IN  IF at = {} THEN 0 ELSE CHOOSE n \in at : \A m \in at : m <= n

RECURSIVE RStripSep(_)
RStripSep(b) ==
    IF b /= <<>> /\ b[Len(b)] = SEP THEN RStripSep(SubSeq(b, 1, Len(b) - 1)) ELSE b

\* os.path.dirname(p)
Dirname(p) ==
    LET head == SubSeq(p, 1, LastSep(p))
    IN  IF head /= <<>> /\ RStripSep(head) /= <<>> THEN RStripSep(head) ELSE head

\* os.path.join(root, file)
JoinPath(root, file) ==
    IF root /= <<>> /\ root[Len(root)] = SEP THEN root \o file
    ELSE root \o <<SEP>> \o file

\* os.path.relpath(file_path, root_dir) of a path that lies below root_dir
RelPath(file_path, root_dir) ==
    SubSeq(file_path, Len(JoinPath(root_dir, <<>>)) + 1, Len(file_path))

\* output_file.write(data) on a file just opened 'wb': data lands at offset 0
\* of what the file holds by then
WriteAt0(old, data) == data \o SubSeq(old, Len(data) + 1, Len(old))

\* the proper directory prefixes of a path: what os.makedirs creates for it
Ancestors(p) ==
    {RStripSep(SubSeq(p, 1, n)) : n \in {m \in 1..Len(p) : p[m] = SEP}} \ {<<>>}

\* bytes.decode(): a byte outside ASCII is not, alone, valid UTF-8
DecodeFails(b) == \E n \in 1..Len(b) : b[n] > 127

(***************************************************************************)
(* The source trees, as os.walk enumerates them, and the archives that     *)
(* import_template can bring into the template store.                      *)
(***************************************************************************)
\* the plaintext whose ciphertext under KEY is ct
Plain(ct) == xor_crypt(ct, KEY)

PathA == <<97>>
PathBC == <<98, 47, 99>>
PathD == <<100>>
PathZ == <<122>>
\* " d"
PathSpD == <<32, 100>>

File(path, content) == [path |-> path, content |-> content]

\* ciphertext "x\nEND_OF_FILE\ny"
CtEnd == <<120>> \o END_MARK \o <<121>>
\* ciphertext "\nFILE: z\nSIZE: 0"
CtFile == <<NL>> \o FILE_MARK \o PathZ \o <<NL>> \o SIZE_MARK \o <<48>>
\* ciphertext "\nFILE: z"
CtFileBad == <<NL>> \o FILE_MARK \o PathZ

Trees ==
    { <<>>,
      <<File(PathA, <<>>), File(PathBC, <<1, 255>>)>>,
      <<File(PathBC, <<7>>), File(PathA, <<>>), File(PathD, Plain(<<120, NL, 121>>))>>,
      <<File(PathA, Plain(CtEnd)), File(PathBC, <<0>>)>>,
      <<File(PathA, Plain(CtFile))>>,
      <<File(PathA, Plain(CtFileBad)), File(PathD, <<>>)>>,
      <<File(PathSpD, <<9>>)>> }

Paths(t) == {t[n].path : n \in 1..Len(t)}

Record(path, n, ct) ==
    FILE_MARK \o path \o <<NL>> \o SIZE_MARK \o DecimalStr(n) \o <<NL>> \o ct \o END_MARK

ImportArchives ==
    { \* a well-formed archive of one file
      Record(PathD, 2, <<50, 51>>),
      \* SIZE beyond the END_OF_FILE marker, within the archive
      Record(PathA, 5, <<50, 51>>),
      \* SIZE beyond the end of the archive
      Record(PathA, 99, <<50, 51>>),
      \* SIZE short of the payload
      Record(PathA, 1, <<50, 51>>) \o Record(PathD, 0, <<>>),
      \* two records of one path
      Record(PathA, 3, <<50, 51, 52>>) \o Record(PathA, 1, <<60>>),
      \* a FILE: line at the end of the archive
      Record(PathD, 0, <<>>) \o FILE_MARK \o PathA \o <<NL>>,
      \* a FILE: line followed by no SIZE: line
      FILE_MARK \o PathA \o <<NL, 50, 51>> \o END_MARK,
      \* a FILE: line followed by the line "XXXX: 2"
      FILE_MARK \o PathA \o <<NL, 88, 88, 88, 88, 58, 32, 50, NL, 50, 51>> \o END_MARK,
      \* a SIZE: line with the value -1
      FILE_MARK \o PathD \o <<NL>> \o SIZE_MARK \o <<45, 49, NL, 50, 51>> \o END_MARK }

(***************************************************************************)
(* State.                                                                  *)
(***************************************************************************)
VARIABLES
    tree,          \* the files below root_dir: <<[path, content], ...>>
    unreadable,    \* the paths of tree that open(file_path, 'rb') fails on
    rootExists,    \* whether root_dir is a directory
    archive,       \* the bytes of <template_name>.tdmcli, or NoFile
    dest,          \* the files in the current directory of apply: path -> bytes
    destDirs,      \* the directories made in the current directory of apply
    op,            \* the operation running or last run
    pc,            \* where the main thread stands
    futures,       \* the tasks submitted to the executor
    completion,    \* the tasks in the order they finished
    acStarted,     \* as_completed has taken its snapshot
    acSnap,        \* the tasks as_completed found finished when it started
    yielded,       \* the tasks as_completed has yielded, in order
    cur,           \* the future whose record create_template is writing
    handle,        \* template_file: "none", "open" or "closed"
    lines,         \* apply_template's lines
    i,             \* apply_template's i
    total_files,   \* apply_template's total_files
    pbar,          \* the count tqdm shows
    err,           \* an exception is propagating in the main thread
    hist,          \* the operations that ended, with what they reported
    archiveBefore, \* archive when the operation started
    destBefore,    \* dest when the operation started
    cx, ck, cy, cz, cpc  \* the cipher alone: data, key, encoded, decoded, step

vars == <<tree, unreadable, rootExists, archive, dest, destDirs, op, pc, futures,
          completion, acStarted, acSnap, yielded, cur, handle, lines, i,
          total_files, pbar, err, hist, archiveBefore, destBefore,
          cx, ck, cy, cz, cpc>>

envVars == <<tree, unreadable, rootExists>>
cipherVars == <<cx, ck, cy, cz, cpc>>
applyVars == <<lines, i, total_files>>
destVars == <<dest, destDirs, destBefore>>
asCompletedVars == <<acStarted, acSnap, yielded>>

Task(arg) == [st |-> "pending", arg |-> arg, name |-> <<>>, data |-> <<>>]

Finished(t) == futures[t].st \in {"done", "failed"}
AllFinished == \A t \in 1..Len(futures) : Finished(t)
Running == {t \in 1..Len(futures) : futures[t].st \in {"running", "opened"}}
InSeq(x, q) == \E n \in 1..Len(q) : q[n] = x

EmptyDir == [p \in {} |-> <<>>]

Init ==
    /\ rootExists \in BOOLEAN
    /\ tree \in (IF rootExists THEN Trees ELSE {<<>>})
    /\ unreadable \in {u \in SUBSET Paths(tree) : Cardinality(u) <= 1}
    /\ archive = NoFile
    /\ dest = EmptyDir
    /\ destDirs = {}
    /\ op = "none"
    /\ pc = "idle"
    /\ futures = <<>>
    /\ completion = <<>>
    /\ acStarted = FALSE
    /\ acSnap = {}
    /\ yielded = <<>>
    /\ cur = 0
    /\ handle = "none"
    /\ lines = <<>>
    /\ i = 0
    /\ total_files = 0
    /\ pbar = 0
    /\ err = FALSE
    /\ hist = <<>>
    /\ archiveBefore = NoFile
    /\ destBefore = EmptyDir
    /\ cx = <<>> /\ ck = KEY /\ cy = <<>> /\ cz = <<>> /\ cpc = "off"

\* what every operation does when the command starts
Begin(name) ==
    /\ pc = "idle"
    /\ Len(hist) < MaxOps
    /\ op' = name
    /\ archiveBefore' = archive
    /\ destBefore' = dest
    /\ completion' = <<>>
    /\ acStarted' = FALSE
    /\ acSnap' = {}
    /\ yielded' = <<>>
    /\ cur' = 0
    /\ handle' = "none"
    /\ pbar' = 0
    /\ err' = FALSE

\* the command returns or dies: what it reported
End(name, outcome) ==
    /\ hist' = Append(hist, [op |-> name, outcome |-> outcome])
    /\ pc' = "idle"

(***************************************************************************)
(* The executor: ThreadPoolExecutor(max_workers=MAX_WORKERS).              *)
(***************************************************************************)
\* an executor that drops its queued tasks once an error propagates, as
\* shutdown(cancel_futures=True) does
TaskStart_cancelOnError(t) ==
    /\ ~err
    /\ futures[t].st = "pending"
    /\ \A u \in 1..(t - 1) : futures[u].st /= "pending"
    /\ Cardinality(Running) < MAX_WORKERS
    /\ futures' = [futures EXCEPT ![t].st = "running"]
    /\ UNCHANGED <<envVars, archive, destVars, op, pc, completion, asCompletedVars,
                   cur, handle, applyVars, pbar, err, hist, archiveBefore, cipherVars>>

\* a worker thread takes the oldest queued task
TaskStart(t) ==
    /\ futures[t].st = "pending"
    /\ \A u \in 1..(t - 1) : futures[u].st /= "pending"
    /\ Cardinality(Running) < MAX_WORKERS
    /\ futures' = [futures EXCEPT ![t].st = "running"]
    /\ UNCHANGED <<envVars, archive, destVars, op, pc, completion, asCompletedVars,
                   cur, handle, applyVars, pbar, err, hist, archiveBefore, cipherVars>>

\* as_completed(futures), entered at the first next(): the futures already
\* finished are yielded first, in the order of a set
AsCompletedStart ==
    /\ pc \in {"c_next", "a_next"}
    /\ ~acStarted
    /\ acStarted' = TRUE
    /\ acSnap' = {t \in 1..Len(futures) : Finished(t)}
    /\ UNCHANGED <<envVars, archive, destVars, op, pc, futures, completion, yielded,
                   cur, handle, applyVars, pbar, err, hist, archiveBefore, cipherVars>>

\* as_completed handing out the most recently completed future first
NextYield_lifo ==
    LET early == {t \in acSnap : ~InSeq(t, yielded)}
        late  == {n \in 1..Len(completion) : ~InSeq(completion[n], yielded)}
    IN  IF early /= {} THEN early
        ELSE IF late = {} THEN {}
        ELSE {completion[CHOOSE n \in late : \A m \in late : m <= n]}

\* the futures as_completed may yield next
NextYield ==
    LET early == {t \in acSnap : ~InSeq(t, yielded)}
        late  == {n \in 1..Len(completion) : ~InSeq(completion[n], yielded)}
    IN  IF early /= {} THEN early
        ELSE IF late = {} THEN {}
        ELSE {completion[CHOOSE n \in late : \A m \in late : n <= m]}

(***************************************************************************)
(* create_template                                                         *)
(***************************************************************************)
\* os.walk(root_dir) of a missing directory yields nothing
AllFiles ==
    IF rootExists THEN [n \in 1..Len(tree) |-> JoinPath(ROOT_DIR, tree[n].path)]
    ELSE <<>>

\* lines 32-40: enumerate the files and submit one task for each
CreateStart ==
    /\ Begin("create")
    /\ futures' = [n \in 1..Len(AllFiles) |-> Task(AllFiles[n])]
    /\ pc' = "c_open"
    /\ UNCHANGED <<envVars, archive, dest, destDirs, applyVars, hist, cipherVars>>

\* process_file writing its own record to the shared template_file
process_file_writes(t) ==
    /\ op = "create"
    /\ futures[t].st = "running"
    /\ LET relative_path == RelPath(futures[t].arg, ROOT_DIR)
           file == CHOOSE n \in 1..Len(tree) : tree[n].path = relative_path
           enc  == xor_crypt(tree[file].content, KEY)
       IN  IF relative_path \in unreadable
           THEN /\ futures' = [futures EXCEPT ![t].st = "failed"]
                /\ archive' = archive
           ELSE /\ futures' = [futures EXCEPT
                                  ![t].st = "done",
                                  ![t].name = relative_path,
                                  ![t].data = enc]
                /\ archive' = IF handle = "open"
                              THEN archive \o FILE_MARK \o relative_path \o <<NL>>
                              ELSE archive
    /\ completion' = Append(completion, t)
    /\ UNCHANGED <<envVars, destVars, op, pc, asCompletedVars, cur, handle,
                   applyVars, pbar, err, hist, archiveBefore, cipherVars>>

\* process_file: the task of one file
process_file(t) ==
    /\ op = "create"
    /\ futures[t].st = "running"
    /\ LET relative_path == RelPath(futures[t].arg, ROOT_DIR)
           file == CHOOSE n \in 1..Len(tree) : tree[n].path = relative_path
       IN  IF relative_path \in unreadable
           THEN futures' = [futures EXCEPT ![t].st = "failed"]
           ELSE futures' = [futures EXCEPT
                                ![t].st = "done",
                                ![t].name = relative_path,
                                ![t].data = xor_crypt(tree[file].content, KEY)]
    /\ completion' = Append(completion, t)
    /\ UNCHANGED <<envVars, archive, destVars, op, pc, asCompletedVars, cur, handle,
                   applyVars, pbar, err, hist, archiveBefore, cipherVars>>

\* line 42: open(template_path, 'wb') truncates the archive, or fails
CreateOpen ==
    /\ pc = "c_open"
    /\ \E ok \in BOOLEAN :
          IF ok THEN /\ archive' = <<>>
                     /\ handle' = "open"
                     /\ pc' = "c_next"
                     /\ err' = err
          ELSE /\ err' = TRUE
               /\ pc' = "c_shutdown"
               /\ UNCHANGED <<archive, handle>>
    /\ UNCHANGED <<envVars, destVars, op, futures, completion, asCompletedVars, cur,
                   applyVars, pbar, hist, archiveBefore, cipherVars>>

\* lines 43-44: tqdm counts the finished iteration, as_completed yields the
\* next future and future.result() returns its result or raises its error
CreateNext ==
    /\ pc = "c_next"
    /\ acStarted
    /\ pbar' = Len(yielded)
    /\ IF Len(yielded) = Len(futures)
       THEN /\ pc' = "c_close"
            /\ UNCHANGED <<yielded, cur, err>>
       ELSE \E t \in NextYield :
               /\ yielded' = Append(yielded, t)
               /\ IF futures[t].st = "failed"
                  THEN /\ err' = TRUE
                       /\ pc' = "c_close"
                       /\ cur' = cur
                  ELSE /\ cur' = t
                       /\ pc' = "c_file"
                       /\ err' = err
    /\ UNCHANGED <<envVars, archive, destVars, op, futures, completion, acStarted,
                   acSnap, handle, applyVars, hist, archiveBefore, cipherVars>>

\* one template_file.write(data) of the loop body
WriteStep(at, data, next) ==
    /\ pc = at
    /\ archive' = archive \o data
    /\ pc' = next
    /\ UNCHANGED <<envVars, destVars, op, futures, completion, asCompletedVars, cur,
                   handle, applyVars, pbar, err, hist, archiveBefore, cipherVars>>

\* line 45
CreateWriteFile ==
    WriteStep("c_file", FILE_MARK \o futures[cur].name \o <<NL>>, "c_size")
\* line 46
CreateWriteSize ==
    WriteStep("c_size", SIZE_MARK \o DecimalStr(Len(futures[cur].data)) \o <<NL>>, "c_data")
\* line 47
CreateWriteData ==
    WriteStep("c_data", futures[cur].data, "c_end")
\* line 48 writing the marker without the newline before it
CreateWriteEnd_nonl ==
    WriteStep("c_end", Tail(END_MARK), "c_next")

\* line 48
CreateWriteEnd ==
    WriteStep("c_end", END_MARK, "c_next")

\* the end of "with open(...) as template_file", left normally or by an error
CreateClose ==
    /\ pc = "c_close"
    /\ handle' = "closed"
    /\ pc' = "c_shutdown"
    /\ UNCHANGED <<envVars, archive, destVars, op, futures, completion, asCompletedVars,
                   cur, applyVars, pbar, err, hist, archiveBefore, cipherVars>>

\* the end of "with ThreadPoolExecutor(...)": shutdown(wait=True), then
\* line 50 or the error leaves create_template
CreateEnd ==
    /\ pc = "c_shutdown"
    /\ AllFinished
    /\ End("create", IF err THEN "error" ELSE "success")
    /\ UNCHANGED <<envVars, archive, destVars, op, futures, completion, asCompletedVars,
                   cur, handle, applyVars, pbar, err, archiveBefore, cipherVars>>

(***************************************************************************)
(* apply_template                                                          *)
(***************************************************************************)
CountFileLines(ls) == Cardinality({n \in 1..Len(ls) : StartsWith(ls[n], FILE_MARK)})

\* apply_template without the test of lines 96-98: a missing archive reads
\* as an empty one
ApplyStart_missingAsEmpty ==
    /\ Begin("apply")
    /\ futures' = <<>>
    /\ lines' = IF archive = NoFile THEN <<>> ELSE Readlines(archive)
    /\ total_files' = IF archive = NoFile THEN 0 ELSE CountFileLines(Readlines(archive))
    /\ i' = 0
    /\ pc' = "a_scan"
    /\ hist' = hist
    /\ UNCHANGED <<envVars, archive, dest, destDirs, cipherVars>>

\* lines 91-105: not found, or read the whole archive
ApplyStart ==
    /\ Begin("apply")
    /\ futures' = <<>>
    /\ IF archive = NoFile
       THEN /\ End("apply", "notfound")
            /\ UNCHANGED applyVars
       ELSE /\ lines' = Readlines(archive)
            /\ total_files' = CountFileLines(Readlines(archive))
            /\ i' = 0
            /\ pc' = "a_scan"
            /\ hist' = hist
    /\ UNCHANGED <<envVars, archive, dest, destDirs, cipherVars>>

\* lines 108-114: one turn of the while loop, or its end
ApplyScan ==
    /\ pc = "a_scan"
    /\ IF i < Len(lines)
       THEN IF StartsWith(lines[i + 1], FILE_MARK)
            THEN /\ futures' = Append(futures, Task(i))
                 /\ i' = i + 3
                 /\ pbar' = pbar + 1
                 /\ pc' = pc
            ELSE /\ i' = i + 1
                 /\ UNCHANGED <<futures, pbar, pc>>
       ELSE /\ pc' = "a_next"
            /\ UNCHANGED <<futures, i, pbar>>
    /\ UNCHANGED <<envVars, archive, destVars, op, completion, asCompletedVars, cur,
                   handle, lines, total_files, err, hist, archiveBefore, cipherVars>>

\* the position before the first END_OF_FILE marker of b, Len(b) with none
BeforeMarker(b) ==
    LET at == {n \in 0..(Len(b) - Len(END_MARK)) :
                  SubSeq(b, n + 1, n + Len(END_MARK)) = END_MARK}
    IN  IF at = {} THEN Len(b) ELSE CHOOSE n \in at : \A m \in at : n <= m

\* a decoder that ends the payload at the first END_OF_FILE marker
RecordData_toMarker(ls, start_index) ==
    LET rest == Join(SubSeq(ls, start_index + 3, Len(ls)))
    IN  xor_crypt(SubSeq(rest, 1, BeforeMarker(rest)), KEY)

\* lines 53-56 of process_template_file(lines, start_index)
RecordName(ls, start_index) == Strip(From6(ls[start_index + 1]))
RecordSize(ls, start_index) == ParseInt(From6(ls[start_index + 2]))
RecordData(ls, start_index) ==
    xor_crypt(SliceTo(Join(SubSeq(ls, start_index + 3, Len(ls))),
                      RecordSize(ls, start_index).val), KEY)

\* IndexError, UnicodeDecodeError or ValueError in lines 53-54
ParseFails(ls, start_index) ==
    \/ DecodeFails(RecordName(ls, start_index))
    \/ start_index + 2 > Len(ls)
    \/ ~RecordSize(ls, start_index).ok

\* lines 58-60 fail: a directory to make has a file in its place
MakedirsFails(name) == \E a \in Ancestors(name) : a \in DOMAIN dest

\* line 62 fails: no name, or the name of a directory
OpenFails(name, dirs) ==
    \/ name = <<>>
    \/ name[Len(name)] = SEP
    \/ name \in dirs

\* lines 53-62: parse the record, make the directory, open (truncate) the file
DecodeOpen(t) ==
    /\ op = "apply"
    /\ futures[t].st = "running"
    /\ LET s    == futures[t].arg
           name == RecordName(lines, s)
           dirs == destDirs \cup Ancestors(name)
       IN  IF ParseFails(lines, s) \/ MakedirsFails(name)
           THEN /\ futures' = [futures EXCEPT ![t].st = "failed"]
                /\ completion' = Append(completion, t)
                /\ UNCHANGED <<dest, destDirs>>
           ELSE IF OpenFails(name, dirs)
           THEN /\ futures' = [futures EXCEPT ![t].st = "failed"]
                /\ completion' = Append(completion, t)
                /\ destDirs' = dirs
                /\ dest' = dest
           ELSE /\ futures' = [futures EXCEPT
                                  ![t].st = "opened",
                                  ![t].name = name,
                                  ![t].data = RecordData(lines, s)]
                /\ destDirs' = dirs
                /\ dest' = [q \in DOMAIN dest \cup {name} |->
                               IF q = name THEN <<>> ELSE dest[q]]
                /\ completion' = completion
    /\ UNCHANGED <<envVars, archive, destBefore, op, pc, asCompletedVars, cur, handle,
                   applyVars, pbar, err, hist, archiveBefore, cipherVars>>

\* line 63 and the end of the with block: write the payload and close
DecodeWrite(t) ==
    /\ op = "apply"
    /\ futures[t].st = "opened"
    /\ dest' = [dest EXCEPT ![futures[t].name] = WriteAt0(@, futures[t].data)]
    /\ futures' = [futures EXCEPT ![t].st = "done"]
    /\ completion' = Append(completion, t)
    /\ UNCHANGED <<envVars, archive, destDirs, destBefore, op, pc, asCompletedVars, cur,
                   handle, applyVars, pbar, err, hist, archiveBefore, cipherVars>>

\* lines 116-117 without future.result(): a task's error is never raised
ApplyNext_noResult ==
    /\ pc = "a_next"
    /\ acStarted
    /\ IF Len(yielded) = Len(futures)
       THEN /\ pc' = "a_shutdown"
            /\ UNCHANGED <<yielded, err>>
       ELSE \E t \in NextYield :
               /\ yielded' = Append(yielded, t)
               /\ UNCHANGED <<err, pc>>
    /\ UNCHANGED <<envVars, archive, destVars, op, futures, completion, acStarted,
                   acSnap, cur, handle, applyVars, pbar, hist, archiveBefore, cipherVars>>

\* lines 116-117: as_completed yields the next future, future.result()
\* returns or raises
ApplyNext ==
    /\ pc = "a_next"
    /\ acStarted
    /\ IF Len(yielded) = Len(futures)
       THEN /\ pc' = "a_shutdown"
            /\ UNCHANGED <<yielded, err>>
       ELSE \E t \in NextYield :
               /\ yielded' = Append(yielded, t)
               /\ err' = (futures[t].st = "failed")
               /\ pc' = IF futures[t].st = "failed" THEN "a_shutdown" ELSE pc
    /\ UNCHANGED <<envVars, archive, destVars, op, futures, completion, acStarted,
                   acSnap, cur, handle, applyVars, pbar, hist, archiveBefore, cipherVars>>

\* the end of "with ThreadPoolExecutor(...)": shutdown(wait=True), then
\* line 119 or the error leaves apply_template
ApplyEnd ==
    /\ pc = "a_shutdown"
    /\ AllFinished
    /\ End("apply", IF err THEN "error" ELSE "success")
    /\ UNCHANGED <<envVars, archive, destVars, op, futures, completion, asCompletedVars,
                   cur, handle, applyVars, pbar, err, archiveBefore, cipherVars>>

(***************************************************************************)
(* import_template and delete_template                                     *)
(***************************************************************************)
\* lines 170-175: shutil.copy(input_file, dest_path)
ImportTemplate ==
    /\ Begin("import")
    /\ \E a \in ImportArchives : archive' = a
    /\ End("import", "success")
    /\ futures' = <<>>
    /\ UNCHANGED <<envVars, dest, destDirs, applyVars, cipherVars>>

\* lines 121-127
DeleteTemplate ==
    /\ Begin("delete")
    /\ archive' = NoFile
    /\ End("delete", IF archive = NoFile THEN "notfound" ELSE "success")
    /\ futures' = <<>>
    /\ UNCHANGED <<envVars, dest, destDirs, applyVars, cipherVars>>

Next ==
    \/ CreateStart
    \/ CreateOpen
    \/ AsCompletedStart
    \/ CreateNext
    \/ CreateWriteFile
    \/ CreateWriteSize
    \/ CreateWriteData
    \/ CreateWriteEnd
    \/ CreateClose
    \/ CreateEnd
    \/ ApplyStart
    \/ ApplyScan
    \/ ApplyNext
    \/ ApplyEnd
    \/ ImportTemplate
    \/ DeleteTemplate
    \/ \E t \in 1..Len(futures) : TaskStart(t)
    \/ \E t \in 1..Len(futures) : process_file(t)
    \/ \E t \in 1..Len(futures) : DecodeOpen(t)
    \/ \E t \in 1..Len(futures) : DecodeWrite(t)

Spec == Init /\ [][Next]_vars

(***************************************************************************)
(* The cipher alone, on every short byte string and several keys.          *)
(***************************************************************************)
CipherBytes == {0, 77, 128, 255}
CipherKeys == {KEY, <<255>>, <<1, 128>>, <<0, 90, 165>>}

RECURSIVE SeqsUpTo(_, _)
SeqsUpTo(S, n) ==
    IF n = 0 THEN {<<>>}
    ELSE SeqsUpTo(S, n - 1) \cup {Append(q, b) : q \in SeqsUpTo(S, n - 1), b \in S}

InitCipher ==
    /\ rootExists = TRUE /\ tree = <<>> /\ unreadable = {}
    /\ archive = NoFile /\ dest = EmptyDir /\ destDirs = {}
    /\ op = "none" /\ pc = "cipher"
    /\ futures = <<>> /\ completion = <<>>
    /\ acStarted = FALSE /\ acSnap = {} /\ yielded = <<>>
    /\ cur = 0 /\ handle = "none"
    /\ lines = <<>> /\ i = 0 /\ total_files = 0 /\ pbar = 0
    /\ err = FALSE /\ hist = <<>>
    /\ archiveBefore = NoFile /\ destBefore = EmptyDir
    /\ cx \in SeqsUpTo(CipherBytes, MaxData)
    /\ ck \in CipherKeys
    /\ cy = <<>> /\ cz = <<>> /\ cpc = "in"

nonCipherVars == <<tree, unreadable, rootExists, archive, dest, destDirs, op, pc,
                   futures, completion, acStarted, acSnap, yielded, cur, handle,
                   lines, i, total_files, pbar, err, hist, archiveBefore, destBefore>>

\* encrypted_content = xor_crypt(content, KEY), line 29
Encode ==
    /\ cpc = "in"
    /\ cy' = xor_crypt(cx, ck)
    /\ cpc' = "enc"
    /\ UNCHANGED <<nonCipherVars, cx, ck, cz>>

\* decrypted_content = xor_crypt(encrypted_content[:size], KEY), line 56
Decode ==
    /\ cpc = "enc"
    /\ cz' = xor_crypt(cy, ck)
    /\ cpc' = "dec"
    /\ UNCHANGED <<nonCipherVars, cx, ck, cy>>

NextCipher == Encode \/ Decode

SpecCipher == InitCipher /\ [][NextCipher]_vars

(***************************************************************************)
(* What the claims speak of.                                               *)
(***************************************************************************)
Last == hist[Len(hist)]
Ended(name) == pc = "idle" /\ hist /= <<>> /\ Last.op = name

\* create_template reported success, then apply_template ran to its end in a
\* directory that was empty
CreatedThenApplied ==
    /\ pc = "idle"
    /\ Len(hist) >= 2
    /\ hist[Len(hist) - 1] = [op |-> "create", outcome |-> "success"]
    /\ Last.op = "apply"
    /\ destBefore = EmptyDir

FileAt(path) == tree[CHOOSE n \in 1..Len(tree) : tree[n].path = path]
TreeAsDir == [q \in Paths(tree) |-> FileAt(q).content]

Cipher(content) == [n \in 1..Len(content) |->
                        ByteXor(content[n], KEY[((n - 1) % Len(KEY)) + 1])]

Contains(big, small) ==
    \E n \in 0..(Len(big) - Len(small)) : SubSeq(big, n + 1, n + Len(small)) = small

\* the first position >= from of byte c in b, 0 when there is none
IndexOf(b, c, from) ==
    LET at == {n \in from..Len(b) : b[n] = c}
    IN  IF at = {} THEN 0 ELSE CHOOSE n \in at : \A m \in at : n <= m

\* the number of records of an archive read by the format of section 6 (FILE:
\* line, SIZE: line, SIZE bytes, END_OF_FILE marker), -1 when it is not a
\* sequence of such records
RECURSIVE StrictCount(_)
StrictCount(b) ==
    IF b = <<>> THEN 0
    ELSE LET nl1  == IndexOf(b, NL, 1)
             nl2  == IF nl1 = 0 THEN 0 ELSE IndexOf(b, NL, nl1 + 1)
             size == IF nl2 = 0 THEN [ok |-> FALSE, val |-> 0]
                     ELSE ParseInt(SubSeq(b, nl1 + 7, nl2 - 1))
             stop == nl2 + size.val + Len(END_MARK)
             good == /\ StartsWith(b, FILE_MARK)
                     /\ nl2 /= 0
                     /\ StartsWith(SubSeq(b, nl1 + 1, nl2), SIZE_MARK)
                     /\ size.ok /\ size.val >= 0
                     /\ stop <= Len(b)
                     /\ SubSeq(b, nl2 + size.val + 1, stop) = END_MARK
         IN  IF ~good THEN 0 - 1
             ELSE LET rest == StrictCount(SubSeq(b, stop + 1, Len(b)))
                  IN  IF rest < 0 THEN 0 - 1 ELSE rest + 1

\* some line of a file's ciphertext, other than its first, begins with FILE:
InnerFileLine(ct) ==
    \E n \in 2..Len(Readlines(ct)) : StartsWith(Readlines(ct)[n], FILE_MARK)

\* a path that the FILE: line carries unharmed
CleanPath(path) ==
    /\ path /= <<>>
    /\ Strip(path) = path
    /\ \A n \in 1..Len(path) : path[n] /= NL /\ path[n] < 128

(***************************************************************************)
(* C1: create_template on a tree of distinct paths, then apply_template    *)
(* into an empty directory, leaves exactly the tree: the same paths, each  *)
(* with the same bytes.                                                    *)
(***************************************************************************)
C1_RoundTrip == CreatedThenApplied => dest = TreeAsDir

(***************************************************************************)
(* C2: xor_crypt is the repeating-key XOR and its own inverse: the output  *)
(* is as long as the input, bit j of output[i] differs from bit j of       *)
(* input[i] exactly where bit j of key[i mod len(key)] is set, and         *)
(* xor_crypt(xor_crypt(x, k), k) = x.                                      *)
(***************************************************************************)
RECURSIVE Pow2(_)
Pow2(j) == IF j = 0 THEN 1 ELSE 2 * Pow2(j - 1)
Bit(a, j) == (a \div Pow2(j)) % 2

C2_XorInvolution ==
    /\ cpc \in {"enc", "dec"} =>
          /\ Len(cy) = Len(cx)
          /\ \A n \in 1..Len(cx) :
                /\ cy[n] \in 0..255
                /\ \A j \in 0..7 :
                      (Bit(cy[n], j) /= Bit(cx[n], j))
                          <=> (Bit(ck[((n - 1) % Len(ck)) + 1], j) = 1)
    /\ cpc = "dec" => cz = cx

C2_Witness == cpc = "dec" /\ Len(cx) > Len(ck) /\ cy /= cx

(***************************************************************************)
(* C3: the archive of a tree of N readable files holds exactly N records,  *)
(* and apply_template dispatches exactly N tasks for it and produces       *)
(* exactly N files.                                                        *)
(***************************************************************************)
C3_Counts ==
    CreatedThenApplied =>
        /\ StrictCount(archive) = Len(tree)
        /\ Len(futures) = Len(tree)
        /\ Cardinality(DOMAIN dest) = Len(tree)

(***************************************************************************)
(* C4: a record whose SIZE is not the number of bytes between its SIZE:    *)
(* line and its END_OF_FILE marker, or exceeds the bytes left in the       *)
(* archive, is rejected: no file is written for it and apply_template      *)
(* does not report success.                                                *)
(***************************************************************************)
\* the bytes after the SIZE: line of the record at start_index
Rest(ls, start_index) == Join(SubSeq(ls, start_index + 3, Len(ls)))

\* the payload length the marker gives: the bytes before the first marker
MarkerLength(rest) ==
    LET at == {n \in 0..(Len(rest) - Len(END_MARK)) :
                  SubSeq(rest, n + 1, n + Len(END_MARK)) = END_MARK}
    IN  IF at = {} THEN 0 - 1 ELSE CHOOSE n \in at : \A m \in at : n <= m

SizeInconsistent(ls, start_index) ==
    /\ start_index + 2 <= Len(ls)
    /\ RecordSize(ls, start_index).ok
    /\ \/ RecordSize(ls, start_index).val > Len(Rest(ls, start_index))
       \/ RecordSize(ls, start_index).val /= MarkerLength(Rest(ls, start_index))

C4_SizeRejected ==
    Ended("apply") =>
        \A t \in 1..Len(futures) :
            SizeInconsistent(lines, futures[t].arg) =>
                /\ Last.outcome /= "success"
                /\ futures[t].st = "failed"

(***************************************************************************)
(* C5 as claimed: when a file's ciphertext contains \nEND_OF_FILE\n,       *)
(* create_template then apply_template does not reproduce the tree.        *)
(***************************************************************************)
HasEndMarkCipher ==
    \E n \in 1..Len(tree) : Contains(Cipher(tree[n].content), END_MARK)

C5_MarkerCorrupts ==
    (CreatedThenApplied /\ HasEndMarkCipher) => dest /= TreeAsDir

(***************************************************************************)
(* C5 amended: when a file's ciphertext contains \nEND_OF_FILE\n, the      *)
(* round trip still reproduces the tree and apply_template reports         *)
(* success, provided no ciphertext line other than the first of its record *)
(* begins with FILE: and every path is non-empty ASCII with no newline and *)
(* no leading or trailing whitespace: the payload is the SIZE bytes after  *)
(* the SIZE: line, and the marker is never searched for.                   *)
(***************************************************************************)
C5_MarkerHarmless ==
    ( /\ CreatedThenApplied
      /\ HasEndMarkCipher
      /\ \A n \in 1..Len(tree) :
            /\ ~InnerFileLine(Cipher(tree[n].content))
            /\ CleanPath(tree[n].path) )
    => (dest = TreeAsDir /\ Last.outcome = "success")

C5_Witness ==
    /\ CreatedThenApplied
    /\ HasEndMarkCipher
    /\ Last.outcome = "success"
    /\ \E q \in DOMAIN dest : Contains(Cipher(dest[q]), END_MARK)

(***************************************************************************)
(* C6: when create_template ends without reporting success, the archive   *)
(* is either as it was before (not written at all) or holds every record;  *)
(* it never holds only some of them.                                       *)
(***************************************************************************)
C6_AllOrNothing ==
    (Ended("create") /\ Last.outcome /= "success") =>
        \/ archive = archiveBefore
        \/ IF archive = NoFile THEN FALSE ELSE StrictCount(archive) = Len(AllFiles)

(***************************************************************************)
(* C7: when root_dir does not exist, create_template reports not-found,    *)
(* creates or overwrites no archive and prints no success message.         *)
(***************************************************************************)
C7_RootNotFound ==
    (Ended("create") /\ ~rootExists) =>
        /\ Last.outcome = "notfound"
        /\ archive = archiveBefore

(***************************************************************************)
(* C8: when the archive does not exist, apply_template reports not-found   *)
(* at once: the archive is not read, no task is submitted, no file or      *)
(* directory is written, and no success message is printed.                *)
(***************************************************************************)
C8_ArchiveNotFound ==
    /\ [](op = "apply" /\ archiveBefore = NoFile =>
             /\ pc = "idle"
             /\ Last = [op |-> "apply", outcome |-> "notfound"]
             /\ futures = <<>>
             /\ dest = destBefore)
    /\ [][(pc = "idle" /\ op' = "apply" /\ archive = NoFile /\ hist' /= hist) =>
             /\ pc' = "idle"
             /\ hist' = Append(hist, [op |-> "apply", outcome |-> "notfound"])
             /\ futures' = <<>>
             /\ UNCHANGED <<archive, lines, i, total_files, dest, destDirs>>]_vars

C8_Witness == Ended("apply") /\ Last.outcome = "notfound" /\ Len(hist) = 2

(***************************************************************************)
(* C9: what create_template has written is, at the end of every loop turn, *)
(* the concatenation of one record per future collected so far, in that    *)
(* order and with no other byte: FILE: and the relative path as            *)
(* enumerated, SIZE: and n, the length of both plaintext and ciphertext,   *)
(* the n ciphertext bytes, and \nEND_OF_FILE\n.                            *)
(***************************************************************************)
IsDone(t) == futures[t].st = "done"

ExpectedRecord(t) ==
    FILE_MARK \o tree[t].path \o <<NL>>
        \o SIZE_MARK \o DecimalStr(Len(tree[t].content)) \o <<NL>>
        \o Cipher(tree[t].content) \o END_MARK

C9_RecordsWellFormed ==
    (op = "create" /\ handle /= "none"
        /\ pc \in {"c_next", "c_close", "c_shutdown", "idle"}) =>
        LET written == SelectSeq(yielded, IsDone)
        IN  /\ archive = Join([k \in 1..Len(written) |-> ExpectedRecord(written[k])])
            /\ \A k \in 1..Len(written) :
                  Len(futures[written[k]].data) = Len(tree[written[k]].content)

C9_Witness ==
    /\ Ended("create") /\ Last.outcome = "success"
    /\ Len(tree) >= 3
    /\ StrictCount(archive) = 3

(***************************************************************************)
(* C10: a zero-byte file becomes the record FILE: <path>\nSIZE: 0\n        *)
(* followed at once by \nEND_OF_FILE\n; apply_template restores it as an   *)
(* empty file at its path, and the record that follows it in the archive   *)
(* is found by the scan and restored.                                      *)
(***************************************************************************)
ZeroRecord(path) ==
    FILE_MARK \o path \o <<NL>> \o SIZE_MARK \o <<48>> \o <<NL>> \o END_MARK

ZeroFiles == {n \in 1..Len(tree) : tree[n].content = <<>>}

\* the apply tasks of the record named path
TasksOf(path) ==
    {t \in 1..Len(futures) : RecordName(lines, futures[t].arg) = path}

\* the record after the one at start index s is found and restored
NextRestored(s) ==
    s + 4 < Len(lines) =>
        /\ StartsWith(lines[s + 5], FILE_MARK)
        /\ \E u \in 1..Len(futures) : futures[u].arg = s + 4 /\ futures[u].st = "done"
        /\ RecordName(lines, s + 4) \in Paths(tree) \cap DOMAIN dest
        /\ dest[RecordName(lines, s + 4)] = FileAt(RecordName(lines, s + 4)).content

C10_ZeroByte ==
    /\ (Ended("create") /\ Last.outcome = "success") =>
          \A n \in ZeroFiles : Contains(archive, ZeroRecord(tree[n].path))
    /\ CreatedThenApplied =>
          \A n \in ZeroFiles :
              /\ tree[n].path \in DOMAIN dest
              /\ dest[tree[n].path] = <<>>
              /\ Cardinality(TasksOf(tree[n].path)) = 1
              /\ \A t \in TasksOf(tree[n].path) :
                    futures[t].st = "done" /\ NextRestored(futures[t].arg)

(***************************************************************************)
(* C11: during create_template only the main (collector) thread writes the *)
(* archive, never a worker task, and the four writes of a record are       *)
(* contiguous: in the middle of a record the archive is the complete       *)
(* records collected before, followed by the part of the current record    *)
(* written so far, whatever the worker tasks do meanwhile.                 *)
(***************************************************************************)
\* the part of the record of future t written when the main thread is at p
PartialRecord(t, p) ==
    LET fileLine == FILE_MARK \o tree[t].path \o <<NL>>
        sizeLine == SIZE_MARK \o DecimalStr(Len(tree[t].content)) \o <<NL>>
    IN  IF p = "c_file" THEN <<>>
        ELSE IF p = "c_size" THEN fileLine
        ELSE IF p = "c_data" THEN fileLine \o sizeLine
        ELSE fileLine \o sizeLine \o Cipher(tree[t].content)

MidRecord == op = "create" /\ pc \in {"c_file", "c_size", "c_data", "c_end"}

C11_SingleWriter ==
    /\ [](MidRecord =>
            /\ handle = "open"
            /\ cur = yielded[Len(yielded)]
            /\ archive =
                  Join([k \in 1..(Len(yielded) - 1) |-> ExpectedRecord(yielded[k])])
                      \o PartialRecord(cur, pc))
    /\ [][(op = "create" /\ op' = "create" /\ archive' /= archive) =>
             /\ futures' = futures
             /\ completion' = completion
             /\ pc \in {"c_open", "c_file", "c_size", "c_data", "c_end"}
             /\ pc' /= pc]_vars

C11_Witness ==
    /\ MidRecord /\ pc = "c_data"
    /\ Len(yielded) >= 2
    /\ \E t \in 1..Len(futures) : futures[t].st = "running"

(***************************************************************************)
(* C12: when two records declare the same path, the file holds, once       *)
(* apply_template has ended, exactly the whole plaintext of one of them,   *)
(* never a mixture, whatever the order of the two tasks' open and write.   *)
(***************************************************************************)
C12_LastWriterWins ==
    Ended("apply") =>
        \A t, u \in 1..Len(futures) :
            ( /\ t /= u
              /\ futures[t].st = "done" /\ futures[u].st = "done"
              /\ futures[t].name = futures[u].name )
            => dest[futures[t].name] \in {futures[t].data, futures[u].data}

(***************************************************************************)
(* C13: after a record is recognised at a FILE: line, the scan resumes     *)
(* after that record: no line inside the record's SIZE payload bytes is    *)
(* taken for a FILE: marker, so no task is dispatched at such a line.      *)
(***************************************************************************)
\* the number of bytes before line k (counted from 0) of ls
LineOffset(ls, k) == Len(Join(SubSeq(ls, 1, k)))

\* the record that starts at line s declares a payload that covers line k
InsidePayload(ls, s, k) ==
    /\ s + 2 <= Len(ls)
    /\ RecordSize(ls, s).ok
    /\ k > s + 1
    /\ LineOffset(ls, k) < LineOffset(ls, s + 2) + RecordSize(ls, s).val

C13_ScanSkipsPayload ==
    op = "apply" =>
        \A t, u \in 1..Len(futures) :
            ~InsidePayload(lines, futures[t].arg, futures[u].arg)

(***************************************************************************)
(* C14: apply_template prints its success message only once every          *)
(* submitted decode task has completed, and only if none of them failed:   *)
(* with a failed task the message is never printed.                        *)
(***************************************************************************)
ApplySucceeded == Ended("apply") /\ Last.outcome = "success"

C14_SuccessAfterAll ==
    /\ [](ApplySucceeded => \A t \in 1..Len(futures) : futures[t].st = "done")
    /\ [][(op' = "apply" /\ hist' /= hist /\ Last'.outcome = "success") =>
             /\ op = "apply"
             /\ \A t \in 1..Len(futures) : futures[t].st = "done"
             /\ futures' = futures]_vars

C14_Witness ==
    /\ Ended("apply") /\ Last.outcome = "error"
    /\ \E t, u \in 1..Len(futures) :
          futures[t].st = "failed" /\ futures[u].st = "done"

(***************************************************************************)
(* C15: create_template closes the archive handle only after every         *)
(* submitted encode task has completed, also when a task's result raised:  *)
(* the handle is never closed while a sibling task is pending or running.  *)
(***************************************************************************)
C15_CloseAfterAll ==
    (op = "create" /\ handle = "closed") => AllFinished

(***************************************************************************)
(* C16: tasks are never cancelled.  A queued task can be started as soon   *)
(* as it is the oldest one queued and a worker is free, and a started task *)
(* can take its last step, also after a sibling has failed and its error   *)
(* propagates; no operation ends before all its tasks have completed; and  *)
(* when apply_template fails, every record other than the failing ones has *)
(* still been written.                                                     *)
(***************************************************************************)
\* task t waits for nothing but a worker thread's next step
Startable(t) ==
    /\ futures[t].st = "pending"
    /\ \A u \in 1..(t - 1) : futures[u].st /= "pending"
    /\ Cardinality(Running) < MAX_WORKERS

\* the record of task t cannot be written: lines 53-54 or line 62 raise
RecordBad(t) ==
    \/ ParseFails(lines, futures[t].arg)
    \/ OpenFails(RecordName(lines, futures[t].arg), destDirs)

C16_NoCancel ==
    /\ \A t \in 1..Len(futures) :
          /\ Startable(t) => ENABLED TaskStart(t)
          /\ (op = "create" /\ futures[t].st = "running") => ENABLED process_file(t)
          /\ futures[t].st = "opened" => ENABLED DecodeWrite(t)
          /\ futures[t].st \in {"pending", "running", "opened", "done", "failed"}
    /\ (pc = "idle" /\ op \in {"create", "apply"}) => AllFinished
    /\ (Ended("apply") /\ Last.outcome = "error") =>
          \A t \in 1..Len(futures) :
              ~RecordBad(t) =>
                  /\ futures[t].st = "done"
                  /\ futures[t].name \in DOMAIN dest

C16_Witness ==
    /\ Ended("apply") /\ Last.outcome = "error"
    /\ yielded /= <<>>
    /\ futures[yielded[Len(yielded)]].st = "failed"
    /\ \E n \in 1..Len(completion) :
          /\ futures[completion[n]].st = "done"
          /\ ~InSeq(completion[n], yielded)

(***************************************************************************)
(* C17: the records of an archive are in the order in which their encode   *)
(* tasks completed.  As the claim states it, for every two tasks: the one  *)
(* that completed first has its record first, also among the tasks that    *)
(* had completed before the collector started.                             *)
(***************************************************************************)
\* the place of task t in the order of completion
CompletedAt(t) == CHOOSE n \in 1..Len(completion) : completion[n] = t

\* the records written so far are those of the tasks collected, in that order
RecordsAsCollected ==
    (Ended("create") /\ Last.outcome = "success") =>
        archive = Join([k \in 1..Len(yielded) |-> ExpectedRecord(yielded[k])])

C17_CompletionOrder ==
    op = "create" =>
        /\ RecordsAsCollected
        /\ \A j, k \in 1..Len(yielded) :
              j < k => CompletedAt(yielded[j]) < CompletedAt(yielded[k])

(***************************************************************************)
(* C17, amended: the records are in the order in which the collector       *)
(* received the tasks.  A task that had not completed when the collector   *)
(* started has its record after that of every task that completed before   *)
(* it; the tasks that had completed by then come first, in no particular   *)
(* order among themselves.                                                 *)
(***************************************************************************)
C17_OrderAfterStart ==
    op = "create" =>
        /\ RecordsAsCollected
        /\ \A j, k \in 1..Len(yielded) :
              (j < k /\ yielded[k] \notin acSnap) =>
                  CompletedAt(yielded[j]) < CompletedAt(yielded[k])
        /\ \A j, k \in 1..Len(yielded) :
              (yielded[j] \in acSnap /\ yielded[k] \notin acSnap) => j < k

C17_Witness ==
    /\ Ended("create")
    /\ Last.outcome = "success"
    /\ Len(yielded) = 3
    /\ Cardinality(acSnap) = 1
    /\ yielded[2] > yielded[3]
    /\ CompletedAt(yielded[2]) < CompletedAt(yielded[3])

(***************************************************************************)
(* C18: a record whose FILE: line is the last line of the archive, or is   *)
(* followed by a line that is not 'SIZE: ' and a non-negative decimal      *)
(* integer, is malformed: its task fails without writing an output file    *)
(* and apply_template does not report success.                             *)
(***************************************************************************)
IsDecimal(b) == b /= <<>> /\ \A n \in 1..Len(b) : IsDigit(b[n])

PairIncomplete(ls, start_index) ==
    \/ start_index + 2 > Len(ls)
    \/ ~StartsWith(ls[start_index + 2], SIZE_MARK)
    \/ ~IsDecimal(Strip(From6(ls[start_index + 2])))

C18_IncompletePairRejected ==
    (Ended("apply") /\ Last.outcome /= "notfound") =>
        \A t \in 1..Len(futures) :
            PairIncomplete(lines, futures[t].arg) =>
                /\ futures[t].st = "failed"
                /\ Last.outcome = "error"

(***************************************************************************)
(* C19: the progress count is the count of tasks completed.  At every      *)
(* moment of create_template and apply_template the count shown is at most *)
(* the number of tasks that have finished, and it is the total only when   *)
(* every task has finished.                                                *)
(***************************************************************************)
\* the total the progress bar was made with: lines 43 and 106
ProgressTotal == IF op = "create" THEN Len(futures) ELSE total_files

FinishedTasks == {t \in 1..Len(futures) : Finished(t)}

C19_ProgressIsCompleted ==
    (op \in {"create", "apply"} /\ pc /= "idle") =>
        /\ pbar <= Cardinality(FinishedTasks)
        /\ pbar = ProgressTotal => AllFinished

====
